---- MODULE Spec2Model ----
(***************************************************************************)
(* A model of src/utils.js of "unchanged": the path walker                *)
(* (onMatchAtPath), the clone helpers, the public read and write           *)
(* operations and the deep merge, over an explicit heap of JavaScript      *)
(* objects so that reference identity and in-place mutation are visible.   *)
(***************************************************************************)
EXTENDS Integers, Sequences, FiniteSets, TLC

\* ------------------------------------------------------------------ bounds

\* The largest number of entries (array elements plus object properties,
\* counted over the whole tree) of a caller-supplied tree.
MaxEntries == 2

\* The longest path handed to a path operation.
MaxPathLen == 2

\* ------------------------------------------------------------ JS values

Undef == [t |-> "undefined", v |-> 0]
Null == [t |-> "null", v |-> 0]
Num(n) == [t |-> "number", v |-> n]
Bool(b) == [t |-> "boolean", v |-> IF b THEN 1 ELSE 0]
\* an instance of Date or RegExp
DateV == [t |-> "date", v |-> 0]
\* an object whose $$typeof is REACT_ELEMENT_TYPE
ElementV == [t |-> "element", v |-> 0]
\* a reference to the heap object at address a
Ref(a) == [t |-> "ref", v |-> a]
\* an array slot that was never assigned; it reads as undefined
Hole == [t |-> "hole", v |-> 0]
\* the completion of a call that threw a TypeError
Throw == [t |-> "TypeError", v |-> 0]

IsRef(v) == v.t = "ref"

\* !!v
Truthy(v) == v.t \in {"ref", "date", "element"} \/ (v.t \in {"number", "boolean"} /\ v.v # 0)

\* typeof v === 'object'
TypeofObject(v) == v.t \in {"null", "ref", "date", "element"}

\* Path keys. typeof key === 'number' for the index keys, 'string' for names.
IndexKeys == {"0", "1"}
NameKeys == {"a", "b"}
Keys == IndexKeys \cup NameKeys
IndexNum(k) == IF k = "0" THEN 0 ELSE 1
NameOrder == <<"a", "b">>

\* ------------------------------------------------------------- the heap
\* A heap object: shape is "array" (Array.isArray), "plain" (constructor ===
\* Object), "custom" (an instance whose constructor is a user function, or
\* that has no constructor) or "native" (its constructor is a native function
\* other than Object). elems are an array's indexed slots, props every other
\* own enumerable property.

NoProps == [k \in {} |-> Undef]
Cell(shape, elems, props) == [shape |-> shape, elems |-> elems, props |-> props]

\* A heap h is a sequence of cells; address a is h[a]. A completed call is
\* the heap it leaves and the value it returns.
Ret(h, r) == [h |-> h, r |-> r]
Alloc(h, cell) == Ret(Append(h, cell), Ref(Len(h) + 1))

HoleToUndef(v) == IF v = Hole THEN Undef ELSE v

\* object[key]
GetProp(h, object, key) ==
  IF object = Throw \/ object.t \in {"undefined", "null"} THEN Throw
  ELSE IF ~IsRef(object) THEN Undef
  ELSE LET c == h[object.v]
       IN IF c.shape = "array" /\ key \in IndexKeys
          THEN IF IndexNum(key) < Len(c.elems)
               THEN HoleToUndef(c.elems[IndexNum(key) + 1])
               ELSE Undef
          ELSE IF key \in DOMAIN c.props THEN c.props[key] ELSE Undef

\* object[key] = value, on the heap object at address a
SetProp(h, a, key, value) ==
  LET c == h[a]
  IN IF c.shape = "array" /\ key \in IndexKeys
     THEN LET i == IndexNum(key)
              n == Len(c.elems)
              grown == IF i < n
                       THEN [c.elems EXCEPT ![i + 1] = value]
                       ELSE c.elems \o [j \in 1..(i - n) |-> Hole] \o <<value>>
          IN [h EXCEPT ![a] = Cell(c.shape, grown, c.props)]
     ELSE LET p == [k \in DOMAIN c.props \cup {key} |->
                      IF k = key THEN value ELSE c.props[k]]
          IN [h EXCEPT ![a] = Cell(c.shape, c.elems, p)]

\* -------------------------------------------------------- utils.js helpers

isArray(h, object) == IsRef(object) /\ h[object.v].shape = "array"

isCloneable(h, object) ==
  /\ Truthy(object)
  /\ TypeofObject(object)
  /\ object.t # "date"
  /\ object.t # "element"

\* getShallowClone copying no property of a plain object
getShallowCloneEmpty(h, object) ==
  LET c == h[object.v]
  IN IF isArray(h, object)
     THEN Alloc(h, Cell("array", [i \in 1..Len(c.elems) |-> HoleToUndef(c.elems[i])], NoProps))
     ELSE Alloc(h, Cell("plain", <<>>, NoProps))

getShallowClone(h, object) ==
  LET c == h[object.v]
  IN IF isArray(h, object)
     THEN Alloc(h, Cell("array", [i \in 1..Len(c.elems) |-> HoleToUndef(c.elems[i])], NoProps))
     ELSE IF c.shape = "plain"
     THEN Alloc(h, Cell("plain", <<>>, c.props))
     ELSE IF c.shape = "native"
     THEN Alloc(h, Cell("plain", <<>>, NoProps))
     ELSE Alloc(h, Cell(c.shape, <<>>, c.props))

getNewEmptyChild(h, key) ==
  IF key \in IndexKeys THEN Alloc(h, Cell("array", <<>>, NoProps))
  ELSE Alloc(h, Cell("plain", <<>>, NoProps))

\* cloneIfPossible returning its argument uncloned
cloneIfPossibleSame(h, object) == Ret(h, object)

cloneIfPossible(h, object) ==
  IF isCloneable(h, object) THEN getShallowClone(h, object) ELSE Ret(h, object)

\* getNewChildClone without the comparison of kinds
getNewChildCloneAnyKind(h, object, nextKey) ==
  LET emptyChild == getNewEmptyChild(h, nextKey)
  IN IF ~isCloneable(emptyChild.h, object) THEN emptyChild
     ELSE cloneIfPossible(emptyChild.h, object)

\* getNewChildClone handing back the child itself when its kind fits
getNewChildCloneShared(h, object, nextKey) ==
  LET emptyChild == getNewEmptyChild(h, nextKey)
  IN IF ~isCloneable(emptyChild.h, object) THEN emptyChild
     ELSE IF isArray(emptyChild.h, object) = isArray(emptyChild.h, emptyChild.r)
     THEN Ret(emptyChild.h, object)
     ELSE emptyChild

getNewChildClone(h, object, nextKey) ==
  LET emptyChild == getNewEmptyChild(h, nextKey)
  IN IF ~isCloneable(emptyChild.h, object) THEN emptyChild
     ELSE IF isArray(emptyChild.h, object) = isArray(emptyChild.h, emptyChild.r)
     THEN cloneIfPossible(emptyChild.h, object)
     ELSE emptyChild

getParsedPath(path) == path

\* The terminal callbacks handed to the walker: "get" and "has" are the
\* arrows of getNestedProperty and hasNestedProperty; "set" is the caller's
\* assignment ref[key] = value.
onMatchGet(h, ref, key) == Ret(h, GetProp(h, ref, key))

\* the has callback comparing loosely, ref[key] != null
onMatchHasLoose(h, ref, key) ==
  Ret(h, IF ~Truthy(ref) THEN Bool(FALSE)
         ELSE LET x == GetProp(h, ref, key)
              IN IF x = Throw THEN Throw ELSE Bool(x # Undef /\ x # Null))

onMatchHas(h, ref, key) ==
  Ret(h, IF ~Truthy(ref) THEN Bool(FALSE)
         ELSE LET x == GetProp(h, ref, key)
              IN IF x = Throw THEN Throw ELSE Bool(x # Undef))

onMatchSet(h, ref, key, value) ==
  IF IsRef(ref) THEN Ret(SetProp(h, ref.v, key, value), value) ELSE Ret(h, Throw)

onMatch(h, cb, value, ref, key) ==
  IF cb = "get" THEN onMatchGet(h, ref, key)
  ELSE IF cb = "has" THEN onMatchHas(h, ref, key)
  ELSE onMatchSet(h, ref, key, value)

\* A completed walk: the heap, the returned value, the calls made to the
\* terminal callback and the number of levels descended.
Walk(h, r, calls, descents) == [h |-> h, r |-> r, calls |-> calls, descents |-> descents]

\* the walker in write mode not assigning the walked child back to its parent
RECURSIVE onMatchAtPathNoAssign(_, _, _, _, _, _, _, _)
onMatchAtPathNoAssign(h, path, object, cb, value, shouldClone, noMatchValue, index) ==
  LET key == path[index + 1]
      nextIndex == index + 1
  IN IF nextIndex = Len(path)
     THEN IF Truthy(object) \/ shouldClone
          THEN LET m == onMatch(h, cb, value, object, key)
                   result == m.r
               IN Walk(m.h,
                       IF result = Throw THEN Throw
                       ELSE IF shouldClone THEN object ELSE result,
                       <<[ref |-> object, key |-> key]>>, 0)
          ELSE Walk(h, IF shouldClone THEN object ELSE noMatchValue, <<>>, 0)
     ELSE IF shouldClone
     THEN LET child == getNewChildClone(h, GetProp(h, object, key), path[nextIndex + 1])
              w == onMatchAtPathNoAssign(child.h, path, child.r, cb, value, shouldClone,
                                         noMatchValue, nextIndex)
          IN Walk(w.h, IF w.r = Throw THEN Throw ELSE object, w.calls, w.descents + 1)
     ELSE IF Truthy(object) /\ Truthy(GetProp(h, object, key))
     THEN LET w == onMatchAtPathNoAssign(h, path, GetProp(h, object, key), cb, value,
                                         shouldClone, noMatchValue, nextIndex)
          IN Walk(w.h, w.r, w.calls, w.descents + 1)
     ELSE Walk(h, noMatchValue, <<>>, 0)

RECURSIVE onMatchAtPath(_, _, _, _, _, _, _, _)
onMatchAtPath(h, path, object, cb, value, shouldClone, noMatchValue, index) ==
  LET key == path[index + 1]
      nextIndex == index + 1
  IN IF nextIndex = Len(path)
     THEN IF Truthy(object) \/ shouldClone
          THEN LET m == onMatch(h, cb, value, object, key)
                   result == m.r
               IN Walk(m.h,
                       IF result = Throw THEN Throw
                       ELSE IF shouldClone THEN object ELSE result,
                       <<[ref |-> object, key |-> key]>>, 0)
          ELSE Walk(h, IF shouldClone THEN object ELSE noMatchValue, <<>>, 0)
     ELSE IF shouldClone
     THEN LET child == getNewChildClone(h, GetProp(h, object, key), path[nextIndex + 1])
              w == onMatchAtPath(child.h, path, child.r, cb, value, shouldClone,
                                 noMatchValue, nextIndex)
          IN IF w.r = Throw THEN Walk(w.h, Throw, w.calls, w.descents + 1)
             ELSE Walk(SetProp(w.h, object.v, key, w.r), object, w.calls, w.descents + 1)
     ELSE IF Truthy(object) /\ Truthy(GetProp(h, object, key))
     THEN LET w == onMatchAtPath(h, path, GetProp(h, object, key), cb, value,
                                 shouldClone, noMatchValue, nextIndex)
          IN Walk(w.h, w.r, w.calls, w.descents + 1)
     ELSE Walk(h, noMatchValue, <<>>, 0)

getNestedProperty(h, path, object) ==
  LET parsedPath == getParsedPath(path)
  IN IF Len(parsedPath) = 1
     THEN Walk(h, IF Truthy(object) THEN GetProp(h, object, parsedPath[1]) ELSE Undef, <<>>, 0)
     ELSE onMatchAtPath(h, parsedPath, object, "get", Undef, FALSE, Undef, 0)

\* hasNestedProperty testing the value's truth on a one-key path
hasNestedPropertyTruthy(h, path, object) ==
  LET parsedPath == getParsedPath(path)
  IN IF Len(parsedPath) = 1
     THEN Walk(h, IF Truthy(object)
                  THEN Bool(Truthy(GetProp(h, object, parsedPath[1])))
                  ELSE Bool(FALSE), <<>>, 0)
     ELSE onMatchAtPath(h, parsedPath, object, "has", Undef, FALSE, Bool(FALSE), 0)

hasNestedProperty(h, path, object) ==
  LET parsedPath == getParsedPath(path)
  IN IF Len(parsedPath) = 1
     THEN Walk(h, IF Truthy(object)
                  THEN Bool(GetProp(h, object, parsedPath[1]) # Undef)
                  ELSE Bool(FALSE), <<>>, 0)
     ELSE onMatchAtPath(h, parsedPath, object, "has", Undef, FALSE, Bool(FALSE), 0)

\* getDeepClone walking the root itself instead of a clone of it
getDeepCloneNoTopClone(h, path, object, value) ==
  LET parsedPath == getParsedPath(path)
      topLevelClone == IF isCloneable(h, object) THEN Ret(h, object)
                       ELSE getNewEmptyChild(h, parsedPath[1])
  IN IF Len(parsedPath) = 1
     THEN LET m == onMatch(topLevelClone.h, "set", value, topLevelClone.r, parsedPath[1])
          IN Walk(m.h, IF m.r = Throw THEN Throw ELSE topLevelClone.r,
                  <<[ref |-> topLevelClone.r, key |-> parsedPath[1]]>>, 0)
     ELSE onMatchAtPath(topLevelClone.h, parsedPath, topLevelClone.r, "set", value,
                        TRUE, Undef, 0)

getDeepClone(h, path, object, value) ==
  LET parsedPath == getParsedPath(path)
      topLevelClone == IF isCloneable(h, object) THEN getShallowClone(h, object)
                       ELSE getNewEmptyChild(h, parsedPath[1])
  IN IF Len(parsedPath) = 1
     THEN LET m == onMatch(topLevelClone.h, "set", value, topLevelClone.r, parsedPath[1])
          IN Walk(m.h, IF m.r = Throw THEN Throw ELSE topLevelClone.r,
                  <<[ref |-> topLevelClone.r, key |-> parsedPath[1]]>>, 0)
     ELSE onMatchAtPath(topLevelClone.h, parsedPath, topLevelClone.r, "set", value,
                        TRUE, Undef, 0)

\* Object.keys(object) for an object that is not an array: its own
\* enumerable properties (none of the modelled keys for a number, a Date or
\* an element). Object.keys(undefined) and Object.keys(null) throw.
KeyOrder == <<"0", "1", "a", "b">>
ObjectKeys(h, object) ==
  IF IsRef(object) THEN SelectSeq(KeyOrder, LAMBDA k : k \in DOMAIN h[object.v].props)
  ELSE <<>>

\* [...array]: the indexed slots, holes read as undefined
Spread(elems) == [i \in 1..Len(elems) |-> HoleToUndef(elems[i])]

\* A completed merge: the heap, the returned value and the record of every
\* call of getDeeplyMergedObject made, the outermost call last.
Merged(h, r, log) == [h |-> h, r |-> r, log |-> log]
MergeCall(object1, object2, r) == [object1 |-> object1, object2 |-> object2, r |-> r]

\* object2.map without the clone: the override's elements as they are
RECURSIVE MapKeep(_, _, _)
MapKeep(h, elems, i) ==
  IF i > Len(elems) THEN Ret(h, <<>>)
  ELSE LET rest == MapKeep(h, elems, i + 1) IN Ret(rest.h, <<elems[i]>> \o rest.r)

\* object2.map(cloneIfPossible), from slot i on
RECURSIVE MapCloneIfPossible(_, _, _)
MapCloneIfPossible(h, elems, i) ==
  IF i > Len(elems) THEN Ret(h, <<>>)
  ELSE IF elems[i] = Hole
  THEN LET rest == MapCloneIfPossible(h, elems, i + 1)
       IN Ret(rest.h, <<Hole>> \o rest.r)
  ELSE LET c == cloneIfPossible(h, elems[i])
           rest == MapCloneIfPossible(c.h, elems, i + 1)
       IN Ret(rest.h, <<c.r>> \o rest.r)

\* Object.keys(object1).reduce(..., {}) : clone[key] = cloneIfPossible(object1[key])
RECURSIVE CloneEntries(_, _, _, _, _)
CloneEntries(h, clone, object1, keys, i) ==
  IF i > Len(keys) THEN h
  ELSE LET c == cloneIfPossible(h, GetProp(h, object1, keys[i]))
       IN CloneEntries(SetProp(c.h, clone.v, keys[i], c.r), clone, object1, keys, i + 1)

RECURSIVE getDeeplyMergedObject(_, _, _)
RECURSIVE MergeEntries(_, _, _, _, _, _, _)
\* Object.keys(object2).reduce(..., clone), from key i on
MergeEntries(h, clone, object1, object2, keys, i, log) ==
  IF i > Len(keys) THEN Merged(h, clone, log)
  ELSE LET key == keys[i]
           v2 == GetProp(h, object2, key)
       IN IF isCloneable(h, v2)
          THEN LET m == getDeeplyMergedObject(h, GetProp(h, object1, key), v2)
               IN IF m.r = Throw THEN Merged(m.h, Throw, log \o m.log)
                  ELSE MergeEntries(SetProp(m.h, clone.v, key, m.r), clone, object1,
                                    object2, keys, i + 1, log \o m.log)
          ELSE MergeEntries(SetProp(h, clone.v, key, v2), clone, object1, object2,
                            keys, i + 1, log)

getDeeplyMergedObject(h, object1, object2) ==
  LET isObject1Array == isArray(h, object1)
  IN IF isObject1Array # isArray(h, object2)
     THEN LET c == cloneIfPossible(h, object2)
          IN Merged(c.h, c.r, <<MergeCall(object1, object2, c.r)>>)
     ELSE IF isObject1Array
     THEN LET mapped == MapCloneIfPossible(h, h[object2.v].elems, 1)
              a == Alloc(mapped.h, Cell("array",
                           Spread(h[object1.v].elems) \o Spread(mapped.r), NoProps))
          IN Merged(a.h, a.r, <<MergeCall(object1, object2, a.r)>>)
     ELSE IF object2 \in {Undef, Null} \/ object1 \in {Undef, Null}
     THEN Merged(h, Throw, <<MergeCall(object1, object2, Throw)>>)
     ELSE LET empty == Alloc(h, Cell("plain", <<>>, NoProps))
              h1 == CloneEntries(empty.h, empty.r, object1, ObjectKeys(empty.h, object1), 1)
              m == MergeEntries(h1, empty.r, object1, object2, ObjectKeys(h1, object2), 1, <<>>)
          IN Merged(m.h, m.r, m.log \o <<MergeCall(object1, object2, m.r)>>)

isEmptyKey(h, object) ==
  object = Undef \/ object = Null \/ (isArray(h, object) /\ Len(h[object.v].elems) = 0)

\* ------------------------------------------------------ caller's inputs
\* A tree as the caller writes it down: a leaf value, or a container of a
\* shape with dense indexed elements (arrays) or named properties (objects).

Leaves == {Undef, Null, Num(0), Num(1), DateV, ElementV}
\* the shapes of the objects a caller supplies (an instance of a user class
\* is cloned as a plain object is, its prototype aside)
ObjectShapes == {"plain", "native"}

IsLeaf(t) == "t" \in DOMAIN t

RECURSIVE Size(_)
RECURSIVE SumSizes(_)
SumSizes(ts) == IF ts = <<>> THEN 0 ELSE Size(Head(ts)) + SumSizes(Tail(ts))
Size(t) ==
  IF IsLeaf(t) THEN 0
  ELSE Len(t.elems) + SumSizes(t.elems) + Cardinality(DOMAIN t.props)
       + SumSizes([i \in 1..Len(t.keys) |-> t.props[t.keys[i]]])

Tree(shape, elems, keys, vals) ==
  [shape |-> shape, elems |-> elems, keys |-> keys,
   props |-> [k \in {keys[i] : i \in 1..Len(keys)} |->
                vals[CHOOSE i \in 1..Len(keys) : keys[i] = k]]]

\* the subsequences of NameOrder
KeyLists == {SelectSeq(NameOrder, LAMBDA k : k \in K) : K \in SUBSET NameKeys}

\* the sequences of n trees with at most e entries in all, drawn from
\* upTo, where upTo[m + 1] holds the trees with at most m entries
RECURSIVE Lists(_, _, _)
Lists(upTo, n, e) ==
  IF n = 0 THEN {<<>>}
  ELSE UNION {{<<t>> \o l : l \in Lists(upTo, n - 1, e - Size(t))} : t \in upTo[e + 1]}

\* the containers with at most e >= 1 entries, their children drawn from upTo
Containers(upTo, e) ==
  UNION {{Tree("array", l, <<>>, <<>>) : l \in Lists(upTo, n, e - n)} :
         n \in {m \in 1..Cardinality(IndexKeys) : m <= e}}
  \cup UNION {{Tree(s, <<>>, ks, l) : s \in ObjectShapes, l \in Lists(upTo, Len(ks), e - Len(ks))} :
              ks \in {k \in KeyLists : Len(k) >= 1 /\ Len(k) <= e}}

EmptyContainers ==
  {Tree("array", <<>>, <<>>, <<>>)} \cup {Tree(s, <<>>, <<>>, <<>>) : s \in ObjectShapes}

\* <<the trees with at most 0 entries, ..., the trees with at most e entries>>
RECURSIVE TreesUpTo(_)
TreesUpTo(e) ==
  IF e = 0 THEN <<Leaves \cup EmptyContainers>>
  ELSE LET upTo == TreesUpTo(e - 1)
       IN Append(upTo, Leaves \cup EmptyContainers \cup Containers(upTo, e))

AllTrees == TreesUpTo(MaxEntries)
\* the trees with at most e entries
Trees(e) == AllTrees[e + 1]

\* Building a tree on the heap, parent before children.
RECURSIVE Load(_, _)
RECURSIVE LoadInto(_, _, _, _, _)
\* items: the children still to attach to the object at address a
LoadInto(h, a, ks, ts, i) ==
  IF i > Len(ts) THEN h
  ELSE LET c == Load(h, ts[i])
       IN LoadInto(SetProp(c.h, a, ks[i], c.r), a, ks, ts, i + 1)
Load(h, t) ==
  IF IsLeaf(t) THEN Ret(h, t)
  ELSE LET o == Alloc(h, Cell(t.shape, <<>>, NoProps))
           idx == <<"0", "1">>
           h1 == LoadInto(o.h, o.r.v, idx, t.elems, 1)
           h2 == LoadInto(h1, o.r.v, t.keys, [i \in 1..Len(t.keys) |-> t.props[t.keys[i]]], 1)
       IN Ret(h2, o.r)

Paths == UNION {[1..n -> Keys] : n \in 1..MaxPathLen}
\* the values a write assigns: no operation looks into the value, so one
\* value that no input tree holds stands for all
Values == {Num(7)}

\* ------------------------------------------------------------- the state
\* One call of a public operation: op is the operation, root (and root2, for
\* a merge) its arguments on the heap heap0; pc turns from "call" to "done"
\* as the call returns res, leaving the heap heap.

VARIABLES heap0, heap, root, root2, op, pc, path, val, res, calls, descents, merges
vars == <<heap0, heap, root, root2, op, pc, path, val, res, calls, descents, merges>>

\* the arguments of a call as the caller built them on the heap
Args(h, r1, r2) == [h |-> h, r1 |-> r1, r2 |-> r2]
LoadOne(t) == LET l == Load(<<>>, t) IN Args(l.h, l.r, Undef)
LoadTwo(t1, t2) ==
  LET l1 == Load(<<>>, t1)
      l2 == Load(l1.h, t2)
  IN Args(l2.h, l1.r, l2.r)

InitPath ==
  /\ op \in {"get", "has", "write"}
  /\ \E t \in Trees(MaxEntries) :
       LET x == LoadOne(t)
       IN heap0 = x.h /\ root = x.r1 /\ root2 = x.r2

\* a merge of a container and a tree with at most MaxEntries entries between them
InitMerge ==
  /\ op = "merge"
  /\ \E t1 \in Trees(MaxEntries) :
       /\ ~IsLeaf(t1)
       /\ \E t2 \in Trees(MaxEntries - Size(t1)) :
            LET x == LoadTwo(t1, t2)
            IN heap0 = x.h /\ root = x.r1 /\ root2 = x.r2

Init ==
  /\ InitPath \/ InitMerge
  /\ heap = heap0
  /\ pc = "call"
  /\ path = <<>>
  /\ val = Undef
  /\ res = Undef
  /\ calls = <<>>
  /\ descents = 0
  /\ merges = <<>>

Return(p, v, w) ==
  /\ pc' = "done"
  /\ path' = p
  /\ val' = v
  /\ heap' = w.h
  /\ res' = w.r
  /\ calls' = w.calls
  /\ descents' = w.descents
  /\ UNCHANGED <<heap0, root, root2, op, merges>>

Get ==
  /\ pc = "call" /\ op = "get"
  /\ \E p \in Paths : Return(p, Undef, getNestedProperty(heap, p, root))

Has ==
  /\ pc = "call" /\ op = "has"
  /\ \E p \in Paths : Return(p, Undef, hasNestedProperty(heap, p, root))

Write ==
  /\ pc = "call" /\ op = "write"
  /\ \E p \in Paths, v \in Values : Return(p, v, getDeepClone(heap, p, root, v))

Merge ==
  /\ pc = "call" /\ op = "merge"
  /\ LET m == getDeeplyMergedObject(heap, root, root2)
     IN /\ pc' = "done"
        /\ heap' = m.h
        /\ res' = m.r
        /\ merges' = m.log
        /\ UNCHANGED <<heap0, root, root2, op, path, val, calls, descents>>

Next == Get \/ Has \/ Write \/ Merge

Spec == Init /\ [][Next]_vars

\* ------------------------------------------------------- properties
\* what the heap held before the call is heap0; an object is fresh when the
\* call allocated it.

Fresh(v) == IsRef(v) /\ v.v > Len(heap0)

\* v[k], undefined when v is not a heap object
SafeGet(h, v, k) == IF IsRef(v) THEN GetProp(h, v, k) ELSE Undef

\* the node reached from v by the first n keys of q
RECURSIVE NodeAt(_, _, _, _)
NodeAt(h, v, q, n) == IF n = 0 THEN v ELSE SafeGet(h, NodeAt(h, v, q, n - 1), q[n])

Kind(k) == IF k \in IndexKeys THEN "array" ELSE "object"
KindOf(h, v) == IF isArray(h, v) THEN "array" ELSE "object"

Done(o) == pc = "done" /\ op = o

\* C1: no public operation mutates its inputs: after get, has, a write or a
\* merge every object of the heap the caller supplied holds the entries and
\* child references it held before, and a write on a cloneable root returns
\* a reference other than the root.
C1_InputsUnchanged ==
  pc = "done" =>
    /\ Len(heap) >= Len(heap0)
    /\ \A a \in 1..Len(heap0) : heap[a] = heap0[a]
    /\ (op = "write" /\ isCloneable(heap0, root) => res # root /\ Fresh(res))

\* a write went through an existing child container of the same kind as the
\* next key, which the walker had to clone rather than change
C1_Witness ==
  /\ Done("write")
  /\ Len(path) = 2
  /\ isCloneable(heap0, root)
  /\ isCloneable(heap0, GetProp(heap0, root, path[1]))
  /\ KindOf(heap0, GetProp(heap0, root, path[1])) = Kind(path[2])
  /\ res # root

\* The original container at step i of the path (i = 0 is the root) is kept
\* by a write when the root and every container down to it are cloneable,
\* each below the root agrees in kind with the key applied to it, and none
\* is an object of a native constructor (whose clone is an empty object).
RECURSIVE Kept(_)
Kept(i) ==
  LET node == NodeAt(heap0, root, path, i)
  IN /\ isCloneable(heap0, node)
     /\ heap0[node.v].shape # "native"
     /\ (i > 0 => Kept(i - 1) /\ KindOf(heap0, node) = Kind(path[i + 1]))

\* the positions that leave the path: neither on it nor below its end
Diverges(q) ==
  \E i \in 1..Len(q) : i <= Len(path) /\ q[i] # path[i]
                       /\ \A j \in 1..(i - 1) : q[j] = path[j]

\* C2 as claimed: after a write every node of the original tree at a position
\* off the path is found at the same position of the new root, as the
\* identical reference.
C2_AllOffPathShared ==
  Done("write") =>
    \A q \in Paths :
      Diverges(q) /\ NodeAt(heap0, root, q, Len(q)) # Undef =>
        NodeAt(heap, res, q, Len(q)) = NodeAt(heap0, root, q, Len(q))

\* C2 (amended): structural sharing holds below every kept container: each
\* entry of a kept container of the path, other than the entry the path
\* goes through, is found under the same key of its clone in the new root
\* as the identical value or reference, no original object is changed, and
\* the clone has no other entries.
C2_SharedBesideKept ==
  Done("write") =>
    /\ \A a \in 1..Len(heap0) : heap[a] = heap0[a]
    /\ \A i \in 0..(Len(path) - 1) :
         Kept(i) =>
           \A k \in Keys \ {path[i + 1]} :
             LET old == GetProp(heap0, NodeAt(heap0, root, path, i), k)
                 new == GetProp(heap, NodeAt(heap, res, path, i), k)
             IN new = old /\ ~Fresh(new)

\* a write below one child of the root while a sibling is a container
C2_Witness ==
  /\ Done("write")
  /\ Len(path) = 2
  /\ Kept(1)
  /\ \E k \in Keys \ {path[1]} :
       /\ IsRef(GetProp(heap0, root, k))
       /\ GetProp(heap, res, k) = GetProp(heap0, root, k)

\* C3: round trip: reading the path from the root a write returned gives
\* the value written, whatever the original root.
C3_RoundTrip ==
  Done("write") =>
    /\ res # Throw
    /\ getNestedProperty(heap, path, res).r = val

\* a two-key write on a root that is not a container, read back
C3_Witness ==
  /\ Done("write")
  /\ Len(path) = 2
  /\ ~isCloneable(heap0, root)
  /\ val # Undef
  /\ getNestedProperty(heap, path, res).r = val

\* the container of the new root to which key i of the path is applied
StepContainer(i) == NodeAt(heap, res, path, i - 1)

\* C4 as claimed: in the new root, at every step of the path including the
\* first, the container the key is applied to is an array for an index and
\* an object for a name.
C4_KindAtEveryStep ==
  Done("write") =>
    \A i \in 1..Len(path) :
      IsRef(StepContainer(i)) /\ KindOf(heap, StepContainer(i)) = Kind(path[i])

\* C4 (amended): the coupling holds at every step below the root, and at
\* the root when the original root is not cloneable; a cloneable root is
\* cloned in its own kind whatever the first key. Below the root an existing
\* container whose kind disagrees with its key is replaced by a fresh
\* container of the key's kind holding only the path's entry.
C4_KindBelowRoot ==
  Done("write") =>
    /\ IsRef(res)
    /\ (isCloneable(heap0, root) => KindOf(heap, res) = KindOf(heap0, root))
    /\ (~isCloneable(heap0, root) => KindOf(heap, res) = Kind(path[1]))
    /\ \A i \in 2..Len(path) :
         LET old == NodeAt(heap0, root, path, i - 1)
         IN /\ Fresh(StepContainer(i))
            /\ KindOf(heap, StepContainer(i)) = Kind(path[i])
            /\ (isCloneable(heap0, old) /\ KindOf(heap0, old) # Kind(path[i]) =>
                  \A k \in Keys \ {path[i]} : GetProp(heap, StepContainer(i), k) = Undef)

\* a name applied where the original holds a non-empty array
C4_Witness ==
  /\ Done("write")
  /\ Len(path) = 2
  /\ path[2] \in NameKeys
  /\ isArray(heap0, GetProp(heap0, root, path[1]))
  /\ Len(heap0[GetProp(heap0, root, path[1]).v].elems) > 0
  /\ GetProp(heap, StepContainer(2), "0") = Undef

\* C5: has returns true exactly when every node before the last key exists
\* and the last key maps to a value other than undefined (null counts), and
\* it never throws.
C5_HasIffDefined ==
  Done("has") =>
    res = Bool(/\ \A i \in 0..(Len(path) - 1) : NodeAt(heap0, root, path, i) # Undef
               /\ NodeAt(heap0, root, path, Len(path)) # Undef)

\* has on a two-key path whose value is null
C5_Witness ==
  /\ Done("has")
  /\ Len(path) = 2
  /\ NodeAt(heap0, root, path, 2) = Null
  /\ res = Bool(TRUE)

\* C9: a write descends exactly n-1 levels and calls the terminal callback
\* once, with the last key and the fresh container that ends up at the
\* position of the path's parent in the returned root.
C9_OneTerminalCall ==
  Done("write") =>
    /\ descents = Len(path) - 1
    /\ Len(calls) = 1
    /\ calls[1].key = path[Len(path)]
    /\ calls[1].ref = StepContainer(Len(path))
    /\ Fresh(calls[1].ref)

\* a write of the longest path through existing containers
C9_Witness ==
  /\ Done("write")
  /\ Len(path) = MaxPathLen
  /\ \A i \in 0..(Len(path) - 1) : isCloneable(heap0, NodeAt(heap0, root, path, i))
  /\ Len(calls) = 1

\* C10: has is true exactly when get is not undefined, and on a one-key
\* path the shortcuts of get and has return what the walker returns for
\* the same path, root and callback in read mode.
C10_ReadsAgree ==
  /\ Done("get") =>
       /\ (res # Undef) = (hasNestedProperty(heap0, path, root).r = Bool(TRUE))
       /\ (Len(path) = 1 =>
             res = onMatchAtPath(heap0, path, root, "get", Undef, FALSE, Undef, 0).r)
  /\ Done("has") =>
       /\ (res = Bool(TRUE)) = (getNestedProperty(heap0, path, root).r # Undef)
       /\ (Len(path) = 1 =>
             res = onMatchAtPath(heap0, path, root, "has", Undef, FALSE, Bool(FALSE), 0).r)

\* has by the shortcut on a key that holds null
C10_Witness ==
  /\ Done("has")
  /\ Len(path) = 1
  /\ IsRef(root)
  /\ GetProp(heap0, root, path[1]) = Null
  /\ res = Bool(TRUE)

\* c is a shallow clone of the original object e as the container factory
\* makes one: a fresh object; an array's elements, or an object's properties
\* and shape, are those of e, except that an object of a native constructor
\* is cloned as an empty plain object.
ShallowCloneOf(c, e) ==
  /\ Fresh(c)
  /\ LET o == heap0[e.v]
     IN heap[c.v] = IF o.shape = "array" THEN Cell("array", Spread(o.elems), NoProps)
                    ELSE IF o.shape = "native" THEN Cell("plain", <<>>, NoProps)
                    ELSE Cell(o.shape, <<>>, o.props)

\* c is a new object with the same entries as the original object e
SameEntriesCopy(c, e) ==
  /\ Fresh(c)
  /\ KindOf(heap, c) = KindOf(heap0, e)
  /\ heap[c.v].elems = Spread(heap0[e.v].elems)
  /\ heap[c.v].props = heap0[e.v].props

MergeCalls == {merges[i] : i \in 1..Len(merges)}

\* C6 as claimed: merging two objects completes without error, and at every
\* key whose override value is cloneable while the base value is absent the
\* result holds a new container of the override value's kind and keys.
C6_AbsentBaseMerges ==
  Done("merge") /\ isCloneable(heap0, root2) /\ ~isArray(heap0, root) /\ ~isArray(heap0, root2) =>
    /\ res # Throw
    /\ \A k \in Keys :
         LET v1 == GetProp(heap0, root, k)
             v2 == GetProp(heap0, root2, k)
         IN isCloneable(heap0, v2) /\ v1 \in {Undef, Null} =>
              LET r == GetProp(heap, res, k)
              IN /\ Fresh(r)
                 /\ KindOf(heap, r) = KindOf(heap0, v2)
                 /\ Len(heap[r.v].elems) = Len(heap0[v2.v].elems)
                 /\ DOMAIN heap[r.v].props = DOMAIN heap0[v2.v].props

\* C7: whenever both arguments are arrays, at the top or in the recursion,
\* the result is a new array: the base's elements in order by identical
\* reference, then the override's elements in order, each a shallow clone
\* when cloneable and the same value otherwise; nothing is merged by index.
C7_ArraysConcatenate ==
  Done("merge") =>
    \A c \in MergeCalls :
      isArray(heap0, c.object1) /\ isArray(heap0, c.object2) =>
        LET e1 == heap0[c.object1.v].elems
            e2 == heap0[c.object2.v].elems
        IN /\ Fresh(c.r)
           /\ isArray(heap, c.r)
           /\ Len(heap[c.r.v].elems) = Len(e1) + Len(e2)
           /\ \A i \in 1..Len(e1) : heap[c.r.v].elems[i] = e1[i]
           /\ \A j \in 1..Len(e2) :
                LET x == heap[c.r.v].elems[Len(e1) + j]
                IN IF isCloneable(heap0, e2[j]) THEN ShallowCloneOf(x, e2[j])
                   ELSE x = e2[j]

\* two non-empty arrays, the override holding a container
C7_Witness ==
  /\ Done("merge")
  /\ isArray(heap0, root) /\ isArray(heap0, root2)
  /\ Len(heap0[root.v].elems) > 0
  /\ \E j \in 1..Len(heap0[root2.v].elems) : IsRef(heap0[root2.v].elems[j])
  /\ IsRef(res)

\* C8 as claimed: whenever exactly one argument is an array, the result is a
\* new object with the same entries as the override when the override is
\* cloneable, and the override itself otherwise.
C8_ConflictCopiesOverride ==
  Done("merge") =>
    \A c \in MergeCalls :
      isArray(heap0, c.object1) # isArray(heap0, c.object2) =>
        IF isCloneable(heap0, c.object2) THEN SameEntriesCopy(c.r, c.object2)
        ELSE c.r = c.object2

\* C8 (amended): whenever exactly one argument is an array, at the top or in
\* the recursion, the result is cloneIfPossible(override): the override
\* itself when it is not cloneable, else a new object with the override's
\* entries and none of the base's, except that an override object of a
\* native constructor is cloned as an empty plain object.
C8_ConflictClonesOverride ==
  Done("merge") =>
    \A c \in MergeCalls :
      isArray(heap0, c.object1) # isArray(heap0, c.object2) =>
        IF isCloneable(heap0, c.object2) THEN ShallowCloneOf(c.r, c.object2)
        ELSE c.r = c.object2

\* a conflict below the top: the base holds an array where the override
\* holds an object, or the other way round
C8_Witness ==
  /\ Done("merge")
  /\ Len(merges) = 2
  /\ isCloneable(heap0, merges[1].object1)
  /\ isArray(heap0, merges[1].object1) # isArray(heap0, merges[1].object2)
  /\ Fresh(merges[1].r)

====
